---- MODULE Spec2Model ----
(***************************************************************************)
(* Model of the taxi-booking backend: BookingService (fare / ETA           *)
(* estimation, ride creation, cancellation policy) over the user table.    *)
(*                                                                         *)
(* Units.  Timestamps are whole minutes.  Money is kept as the integer     *)
(* number of hundredths that Number(x.toFixed(2)) denotes, distances as    *)
(* hundredths of a km; whenever the code does arithmetic on such a value   *)
(* it is converted to the IEEE-754 double the JavaScript number is, and    *)
(* the arithmetic is done on doubles (53-bit significand, round to nearest,*)
(* ties to even), so that toFixed / Math.round see the value the code      *)
(* sees.                                                                   *)
(***************************************************************************)
EXTENDS Integers, Sequences, FiniteSets, TLC

\* Optional values: Null is the absent value (null / undefined), Some(v) a present
\* one and Val(o) its content.
Null == {}
Some(v) == {v}
Val(o) == CHOOSE v \in o : TRUE

(***************************************************************************)
(* Unsigned big integers: little-endian sequences of 15-bit limbs without  *)
(* leading zero limbs (<<>> is 0).  They carry the 53-bit significands and *)
(* the exact intermediate results of double arithmetic.  The arithmetic is *)
(* written as functions, so that every argument is a value when the body   *)
(* is evaluated.                                                           *)
(***************************************************************************)
LimbBase == 2^15

Big == Seq(Nat)

\* << quotient, remainder >> of a division by a small number
BigRem == Big \X Nat

BTrim[A \in Big] ==
  IF A = <<>> THEN <<>>
  ELSE IF A[Len(A)] = 0 THEN BTrim[SubSeq(A, 1, Len(A) - 1)] ELSE A

BFromInt[n \in Nat] ==
  IF n = 0 THEN <<>> ELSE <<n % LimbBase>> \o BFromInt[n \div LimbBase]

BToInt[A \in Big] == IF A = <<>> THEN 0 ELSE Head(A) + LimbBase * BToInt[Tail(A)]

BAddC[A \in Big, B \in Big, c \in Nat] ==
  IF A = <<>> /\ B = <<>> THEN (IF c = 0 THEN <<>> ELSE <<c>>)
  ELSE LET a == IF A = <<>> THEN 0 ELSE Head(A)
           b == IF B = <<>> THEN 0 ELSE Head(B)
           s == a + b + c
       IN  <<s % LimbBase>> \o BAddC[IF A = <<>> THEN <<>> ELSE Tail(A),
                                     IF B = <<>> THEN <<>> ELSE Tail(B),
                                     s \div LimbBase]

BAdd[A \in Big, B \in Big] == BTrim[BAddC[A, B, 0]]

\* A * k + c for a small k (k < 2^15).
BMulSC[A \in Big, k \in Nat, c \in Nat] ==
  IF A = <<>> THEN BFromInt[c]
  ELSE LET p == Head(A) * k + c
       IN  <<p % LimbBase>> \o BMulSC[Tail(A), k, p \div LimbBase]

BMulS[A \in Big, k \in Nat] == BTrim[BMulSC[A, k, 0]]

\* A * 2^15
BShlLimb[A \in Big] == IF A = <<>> THEN <<>> ELSE <<0>> \o A

BMul[A \in Big, B \in Big] ==
  IF A = <<>> \/ B = <<>> THEN <<>>
  ELSE BAdd[BMulS[A, Head(B)], BShlLimb[BMul[A, Tail(B)]]]

\* one step of the long division: hi is << quotient, remainder >> of the higher
\* limbs, a the next lower limb
BDivStep[hi \in BigRem, a \in Nat, k \in Nat] ==
  << <<(hi[2] * LimbBase + a) \div k>> \o hi[1], (hi[2] * LimbBase + a) % k >>

\* <<A div k, A mod k>> for a small k (1 <= k <= 2^15), the quotient untrimmed.
BDivSC[A \in Big, k \in Nat] ==
  IF A = <<>> THEN << <<>>, 0 >> ELSE BDivStep[BDivSC[Tail(A), k], Head(A), k]

BTrimQuotient[r \in BigRem] == << BTrim[r[1]], r[2] >>

BDivS[A \in Big, k \in Nat] == BTrimQuotient[BDivSC[A, k]]

Zeros(n) == [i \in 1..n |-> 0]

\* A * 2^s
BShl[A \in Big, s \in Nat] ==
  IF A = <<>> THEN <<>> ELSE Zeros(s \div 15) \o BMulS[A, 2^(s % 15)]

\* d is << quotient, remainder >>; lost tells whether lower bits were dropped
BInexact[d \in BigRem, lost \in BOOLEAN] == << d[1], d[2] # 0 \/ lost >>

\* << A div 2^s, whether a nonzero bit was shifted out >>
BShr[A \in Big, s \in Nat] ==
  IF s \div 15 >= Len(A) THEN << <<>>, A # <<>> >>
  ELSE BInexact[BDivS[SubSeq(A, s \div 15 + 1, Len(A)), 2^(s % 15)],
                \E i \in 1..(s \div 15) : A[i] # 0]

BitLenS[n \in Nat] == IF n = 0 THEN 0 ELSE 1 + BitLenS[n \div 2]

BBitLen(A) == IF A = <<>> THEN 0 ELSE (Len(A) - 1) * 15 + BitLenS[A[Len(A)]]

BIsOdd(A) == A # <<>> /\ A[1] % 2 = 1

\* A >= B
BGe[A \in Big, B \in Big] ==
  IF Len(A) # Len(B) THEN Len(A) > Len(B)
  ELSE IF A = <<>> THEN TRUE
  ELSE IF A[Len(A)] # B[Len(B)] THEN A[Len(A)] > B[Len(B)]
  ELSE BGe[BTrim[SubSeq(A, 1, Len(A) - 1)], BTrim[SubSeq(B, 1, Len(B) - 1)]]

(***************************************************************************)
(* IEEE-754 doubles (the JavaScript number): [m, e] is m * 2^e with m a    *)
(* 53-bit significand (2^52 <= m < 2^53), or m = <<>> for zero.  Only      *)
(* non-negative normal values occur in the fare arithmetic.                *)
(***************************************************************************)
Double == [m : Big, e : Int]

FZero == [m |-> <<>>, e |-> 0]

\* m1 has 53 bits, or 54 after a carry out of the rounding increment
FNormal[m1 \in Big, e \in Int] ==
  IF BBitLen(m1) = 54 THEN [m |-> BDivS[m1, 2][1], e |-> e + 1] ELSE [m |-> m1, e |-> e]

\* q is << the first 53 bits, the next bit >>, st tells whether any lower bit
\* is set: round to nearest, ties to even
FRoundUp[q \in BigRem, st \in BOOLEAN, e \in Int] ==
  FNormal[IF q[2] = 1 /\ (st \/ BIsOdd(q[1])) THEN BAdd[q[1], <<1>>] ELSE q[1], e]

\* q2 is << the first 54 bits, whether a lower bit is set >>
FRoundBits[q2 \in Big \X BOOLEAN, e \in Int, sticky \in BOOLEAN] ==
  FRoundUp[BDivS[q2[1], 2], q2[2] \/ sticky, e]

\* The double nearest to N * 2^e (plus a nonzero fraction of the last bit of N
\* when sticky), ties to even.
FRound[N \in Big, e \in Int, sticky \in BOOLEAN] ==
  IF N = <<>> THEN FZero
  ELSE IF BBitLen(N) <= 53
    THEN [m |-> BShl[N, 53 - BBitLen(N)], e |-> e - (53 - BBitLen(N))]
    ELSE FRoundBits[BShr[N, BBitLen(N) - 54], e + BBitLen(N) - 53, sticky]

FRoundQuotient[q \in BigRem, e \in Int] == FRound[q[1], e, q[2] # 0]

\* The double a decimal literal n / d denotes (d a power of ten up to 1000).
FFromDec[n \in Nat, d \in Nat] ==
  IF n = 0 THEN FZero ELSE FRoundQuotient[BDivS[BShl[BFromInt[n], 75], d], -75]

FInt[n \in Nat] == FFromDec[n, 1]

FMul[a \in Double, b \in Double] ==
  IF a.m = <<>> \/ b.m = <<>> THEN FZero ELSE FRound[BMul[a.m, b.m], a.e + b.e, FALSE]

FAdd[a \in Double, b \in Double] ==
  IF a.m = <<>> THEN b
  ELSE IF b.m = <<>> THEN a
  ELSE LET e == IF a.e < b.e THEN a.e ELSE b.e
       IN  FRound[BAdd[BShl[a.m, a.e - e], BShl[b.m, b.e - e]], e, FALSE]

\* a / 2^k, exact
FDivPow2[a \in Double, k \in Nat] ==
  IF a.m = <<>> THEN FZero ELSE [m |-> a.m, e |-> a.e - k]

\* a >= b
FGe[a \in Double, b \in Double] ==
  IF b.m = <<>> THEN TRUE
  ELSE IF a.m = <<>> THEN FALSE
  ELSE LET e == IF a.e < b.e THEN a.e ELSE b.e
       IN  BGe[BShl[a.m, a.e - e], BShl[b.m, b.e - e]]

\* Math.max(a, b)
FMax[a \in Double, b \in Double] == IF FGe[a, b] THEN a ELSE b

\* floor(x * mult + 1/2) on the exact value of the double x: the integer n that
\* x.toFixed(f) prints for mult = 10^f ("n / 10^f - x as close to zero as
\* possible; if there are two such n, pick the larger"), and Math.round(x) for
\* mult = 1.
FHalfUp[x \in Double, mult \in Nat] ==
  IF x.m = <<>> THEN 0
  ELSE IF x.e >= 0
    THEN BToInt[BDivS[BAdd[BShl[BMulS[x.m, 2 * mult], x.e], <<1>>], 2][1]]
    ELSE BToInt[BShr[BAdd[BMulS[x.m, 2 * mult], BShl[<<1>>, -x.e]], 1 - x.e][1]]

\* the larger of two integers (Math.max on whole numbers)
IMax[a \in Int, b \in Int] == IF a >= b THEN a ELSE b

(***************************************************************************)
(* Enumerations and pricing (hundredths of a currency unit).               *)
(***************************************************************************)
RideStatus ==
  {"PENDING_DRIVER", "SCHEDULED", "DRIVER_ASSIGNED", "EN_ROUTE_TO_PICKUP",
   "IN_PROGRESS", "COMPLETED", "CANCELLED"}

VehicleType == {"ECONOMY", "PREMIUM", "SUV", "EXECUTIVE"}

pricingMatrix ==
  [ECONOMY   |-> [base |-> 250, perKm |->  85, perMinute |-> 30],
   PREMIUM   |-> [base |-> 400, perKm |-> 115, perMinute |-> 42],
   SUV       |-> [base |-> 450, perKm |-> 130, perMinute |-> 48],
   EXECUTIVE |-> [base |-> 600, perKm |-> 160, perMinute |-> 60]]

DEFAULT_SEGMENT_DISTANCE_KM == 3
AVERAGE_SPEED_KMH == 32
STOP_FEE == 125                \* 1.25 per stop
SCHEDULED_FEE == 150           \* 1.5 for a scheduled ride
SCHEDULE_THRESHOLD_MINUTES == 5
SCHEDULED_WINDOW_MINUTES == 30
INSTANT_WINDOW_MINUTES == 5
MIN_PENALTY == 5
PENALTY_RATE == 15             \* 0.15 of the fare
MIN_DISTANCE_KM == 1
MIN_DURATION_MINUTES == 10
earthRadiusKm == 6371

(***************************************************************************)
(* Route geometry.  A point is [latitude, longitude], each Null or a       *)
(* Some(millidegrees).      The model's points with coordinates lie on the *)
(* equator, where the haversine formula reduces to the arc R * |dLon|      *)
(* (a = sin^2(dLon/2), c = 2 atan2(sqrt a, sqrt(1-a)) = |dLon|); pi is     *)
(* taken as 355/113, exact to the printed hundredth for these points.      *)
(***************************************************************************)
hasCoordinates(point) == point.latitude # Null /\ point.longitude # Null

Abs(x) == IF x < 0 THEN -x ELSE x

\* Faulty variant: a segment without coordinates counts the 1 km floor.
segmentDistance_FloorAsDefault(from, to) ==
  IF hasCoordinates(from) /\ hasCoordinates(to)
    THEN LET num == earthRadiusKm * 355 * Abs(Val(to.longitude) - Val(from.longitude))
             den == 113 * 180 * 10
         IN  (2 * num + den) \div (2 * den)
    ELSE MIN_DISTANCE_KM * 100

\* +(earthRadiusKm * c).toFixed(2), in hundredths of a km
segmentDistance(from, to) ==
  IF hasCoordinates(from) /\ hasCoordinates(to)
    THEN LET num == earthRadiusKm * 355 * Abs(Val(to.longitude) - Val(from.longitude))
             den == 113 * 180 * 10
         IN  (2 * num + den) \div (2 * den)
    ELSE DEFAULT_SEGMENT_DISTANCE_KM * 100

\* the running sum "distance += segmentDistance(...)", a double
RECURSIVE sumSegments(_, _, _)
sumSegments(points, i, distance) ==
  IF i > Len(points) - 1 THEN distance
  ELSE sumSegments(points, i + 1,
                   FAdd[distance, FFromDec[segmentDistance(points[i], points[i + 1]), 100]])

calculateRouteDistance(points) ==
  IF Len(points) < 2 THEN FInt[DEFAULT_SEGMENT_DISTANCE_KM]
  ELSE sumSegments(points, 1, FZero)

\* Faulty variant: the computed route distance is not floored at 1 km.
resolveDistance_NoFloor(points, manualDistance) ==
  IF manualDistance # Null /\ Val(manualDistance) # 0 /\ Val(manualDistance) > 0
    THEN FHalfUp[FFromDec[Val(manualDistance), 1000], 100]
    ELSE FHalfUp[calculateRouteDistance(points), 100]

\* manualDistance: Null or Some(the override in thousandths of a km).
\* Result: Number(x.toFixed(2)) in hundredths of a km.
resolveDistance(points, manualDistance) ==
  IF manualDistance # Null /\ Val(manualDistance) # 0 /\ Val(manualDistance) > 0
    THEN FHalfUp[FFromDec[Val(manualDistance), 1000], 100]
    ELSE FHalfUp[FMax[calculateRouteDistance(points), FInt[MIN_DISTANCE_KM]], 100]

\* manualDuration: Null or Some(the override in tenths of a minute).  The division by
\* AVERAGE_SPEED_KMH = 2^5 is exact in binary.
\* distanceKm in hundredths.  Result: whole minutes.
resolveDuration(distanceKm, manualDuration) ==
  IF manualDuration # Null /\ Val(manualDuration) # 0 /\ Val(manualDuration) > 0
    THEN FHalfUp[FFromDec[Val(manualDuration), 10], 1]
    ELSE LET duration == FMul[FDivPow2[FFromDec[distanceKm, 100], BitLenS[AVERAGE_SPEED_KMH] - 1],
                              FInt[60]]
         IN  IMax[MIN_DURATION_MINUTES, FHalfUp[duration, 1]]

\* Faulty variant: the stop fee is left out of the sum.
calculateFare_NoStopFee(vehicleType, distanceKm, durationMinutes, stopCount, isScheduledRide) ==
  LET pricing      == pricingMatrix[vehicleType]
      scheduledFee == IF isScheduledRide THEN FFromDec[SCHEDULED_FEE, 100] ELSE FZero
      fare ==
        FAdd[FAdd[FAdd[FFromDec[pricing.base, 100],
                       FMul[FFromDec[pricing.perKm, 100], FFromDec[distanceKm, 100]]],
                  FMul[FFromDec[pricing.perMinute, 100], FInt[durationMinutes]]],
             scheduledFee]
  IN  FHalfUp[fare, 100]

\* Faulty variant: a scheduled ride is charged 1.00 instead of 1.50.
calculateFare_ScheduledFeeOne(vehicleType, distanceKm, durationMinutes, stopCount, isScheduledRide) ==
  LET pricing      == pricingMatrix[vehicleType]
      stopFee      == FMul[FInt[stopCount], FFromDec[STOP_FEE, 100]]
      scheduledFee == IF isScheduledRide THEN FInt[1] ELSE FZero
      fare ==
        FAdd[FAdd[FAdd[FAdd[FFromDec[pricing.base, 100],
                            FMul[FFromDec[pricing.perKm, 100], FFromDec[distanceKm, 100]]],
                       FMul[FFromDec[pricing.perMinute, 100], FInt[durationMinutes]]],
                  stopFee],
             scheduledFee]
  IN  FHalfUp[fare, 100]

\* distanceKm in hundredths, durationMinutes whole; result in hundredths.
calculateFare(vehicleType, distanceKm, durationMinutes, stopCount, isScheduledRide) ==
  LET pricing      == pricingMatrix[vehicleType]
      stopFee      == FMul[FInt[stopCount], FFromDec[STOP_FEE, 100]]
      scheduledFee == IF isScheduledRide THEN FFromDec[SCHEDULED_FEE, 100] ELSE FZero
      fare ==
        FAdd[FAdd[FAdd[FAdd[FFromDec[pricing.base, 100],
                            FMul[FFromDec[pricing.perKm, 100], FFromDec[distanceKm, 100]]],
                       FMul[FFromDec[pricing.perMinute, 100], FInt[durationMinutes]]],
                  stopFee],
             scheduledFee]
  IN  FHalfUp[fare, 100]

\* Faulty variant: a supplied scheduledAt is the base even when it has passed.
estimateArrivalTime_WheneverSupplied(scheduledAt, durationMinutes, clock) ==
  LET base == IF scheduledAt # Null THEN Val(scheduledAt) ELSE clock
  IN  base + durationMinutes

\* new Date(base.getTime() + durationMinutes * 60 * 1000), in minutes
estimateArrivalTime(scheduledAt, durationMinutes, clock) ==
  LET base == IF scheduledAt # Null /\ Val(scheduledAt) > clock
                THEN Val(scheduledAt) ELSE clock
  IN  base + durationMinutes

\* Faulty variant: the instant window for every ride.
getCancellationWindowMinutes_AlwaysInstant(isScheduledRide) == INSTANT_WINDOW_MINUTES

getCancellationWindowMinutes(isScheduledRide) ==
  IF isScheduledRide THEN SCHEDULED_WINDOW_MINUTES ELSE INSTANT_WINDOW_MINUTES

\* Faulty variant: the threshold itself counts as ahead.
isFutureDate_Inclusive(date, minutesAhead, clock) == date - clock >= minutesAhead

isFutureDate(date, minutesAhead, clock) == date - clock > minutesAhead

\* Faulty variant: the minimum penalty is 10.
penaltyAmount_MinimumTen(estimatedFare) ==
  FHalfUp[FMax[FInt[10],
               FMul[FFromDec[estimatedFare, 100], FFromDec[PENALTY_RATE, 100]]],
          100]

\* Math.max(5, estimatedFare * 0.15) printed with toFixed(2); hundredths.
penaltyAmount(estimatedFare) ==
  FHalfUp[FMax[FInt[MIN_PENALTY],
               FMul[FFromDec[estimatedFare, 100], FFromDec[PENALTY_RATE, 100]]],
          100]

(***************************************************************************)
(* Bounds and input sets.                                                  *)
(***************************************************************************)
MaxBookings == 2
MaxTime == 5
TickMinutes == {5}

Emails == {"a@x.io", "b@x.io"}
Passwords == {"secret1"}
Names == {"Al"}
Reasons == {Null, Some("Plans changed")}
UserIds == 1..Cardinality(Emails)
RideIds == 1..(MaxBookings + 1)

NoCoords == [address |-> "1 Main St", latitude |-> Null, longitude |-> Null]
LatOnly  == [address |-> "2 Side St", latitude |-> Some(0), longitude |-> Null]
SiteA    == [address |-> "Site A", latitude |-> Some(0), longitude |-> Some(0)]
SiteB    == [address |-> "Site B", latitude |-> Some(0), longitude |-> Some(100)]
SiteC    == [address |-> "Site C", latitude |-> Some(0), longitude |-> Some(5)]
\* another address without coordinates, and one that has only a longitude
Elsewhere == [address |-> "9 Far Rd", latitude |-> Null, longitude |-> Null]
LonOnly   == [address |-> "1 Main St", latitude |-> Null, longitude |-> Some(100)]

CreateInput(pickup, destination, stops, vehicleType, offset, km, minutes) ==
  [pickup |-> pickup, destination |-> destination, stops |-> stops,
   vehicleType |-> vehicleType, scheduledOffset |-> offset,
   estimatedDistanceKm |-> km, estimatedDurationMinutes |-> minutes]

\* Requests of the booking life-cycle specification: scheduledOffset is
\* scheduledAt - (time of the call) in minutes, Null when scheduledAt is absent.
MainInputs ==
  { CreateInput(NoCoords, NoCoords, <<>>, "ECONOMY", Null, Null, Null),
    CreateInput(NoCoords, NoCoords, <<>>, "ECONOMY", Some(6), Null, Null),
    CreateInput(SiteA, SiteB, <<>>, "SUV", Some(5), Null, Null),
    CreateInput(SiteA, SiteB, <<NoCoords>>, "EXECUTIVE", Some(30), Some(20000), Null),
    CreateInput(SiteA, SiteA, <<>>, "PREMIUM", Some(35), Null, Some(600)) }

\* Requests of the estimator specification.
WideRoutes ==
  { <<NoCoords, <<>>, NoCoords>>, <<SiteA, <<>>, SiteA>>,
    <<SiteA, <<LatOnly>>, SiteC>>, <<SiteA, <<SiteB, NoCoords>>, SiteA>>,
    <<NoCoords, <<Elsewhere, LonOnly>>, Elsewhere>> }
WideOffsets == {Null} \cup {Some(o) : o \in {-5, 0, 5, 6, 35}}
WideKm == {Null} \cup {Some(k) : k \in {4, 100, 500, 8900}}
WideMinutes == {Null} \cup {Some(m) : m \in {4, 25, 170}}
WideInputs ==
  { CreateInput(r[1], r[3], r[2], v, o, km, mi) :
      r \in WideRoutes, v \in VehicleType, o \in WideOffsets,
      km \in WideKm, mi \in WideMinutes }

\* Requests of the duration specification: manual distances (thousandths of a
\* km) around the 10-minute floor and around 32.8 km, where 60 d / 32 ends in .5
DurationRoutes == {<<NoCoords, <<>>, NoCoords>>, <<SiteA, <<>>, SiteC>>}
DurationKm ==
  {Null} \cup {Some(k) : k \in {100, 5300, 5330, 5590, 5600, 5610, 8900,
                                32790, 32800, 32810}}
DurationMinutes == {Null, Some(25)}
DurationInputs ==
  { CreateInput(r[1], r[3], r[2], v, o, km, mi) :
      r \in DurationRoutes, v \in VehicleType, o \in {Null, Some(35)},
      km \in DurationKm, mi \in DurationMinutes }

(***************************************************************************)
(* State.                                                                  *)
(*   users    the users table, a sequence; a user's id is its index        *)
(*   bookings the ride_bookings table, a sequence; a ride's id is its index*)
(*   now      the clock, in minutes                                        *)
(*   outcome  the last service call and the exception it threw (or Null)   *)
(*   request  the request under estimation (estimator specification only)  *)
(***************************************************************************)
VARIABLES users, bookings, now, outcome, request

vars == <<users, bookings, now, outcome, request>>

Outcome(op, error) == [op |-> op, error |-> error]

\* The estimates createRideBooking derives from a request, for either
\* classification of the ride.
Estimate(input, isScheduledRide) ==
  LET routePoints == <<input.pickup>> \o input.stops \o <<input.destination>>
      estimatedDistanceKm == resolveDistance(routePoints, input.estimatedDistanceKm)
      estimatedDurationMinutes ==
        resolveDuration(estimatedDistanceKm, input.estimatedDurationMinutes)
  IN  [estimatedDistanceKm |-> estimatedDistanceKm,
       estimatedDurationMinutes |-> estimatedDurationMinutes,
       estimatedFare |-> calculateFare(input.vehicleType, estimatedDistanceKm,
                                       estimatedDurationMinutes, Len(input.stops),
                                       isScheduledRide)]

\* The estimates and penalties of every request the specifications issue,
\* evaluated once.
Unscheduled(input) == [input EXCEPT !.scheduledOffset = Null]

EstimateMemo ==
  [i \in {Unscheduled(j) : j \in MainInputs \cup WideInputs \cup DurationInputs},
   s \in BOOLEAN |->
     Estimate(i, s)]

EstimateOf(input, isScheduledRide) == EstimateMemo[Unscheduled(input), isScheduledRide]

PenaltyMemo ==
  [f \in {EstimateMemo[k].estimatedFare : k \in DOMAIN EstimateMemo} |-> penaltyAmount(f)]

\* Faulty variant: exactly `window` minutes ahead is already charged.
calculateCancellationPenalty_StrictWindow(booking, clock) ==
  LET pickupReference ==
        IF booking.isInstant THEN booking.createdAt
        ELSE IF booking.scheduledAt # Null THEN Val(booking.scheduledAt)
        ELSE booking.createdAt
      minutesUntilPickup == pickupReference - clock
      window ==
        IF booking.cancellationWindowMinutes # Null
          THEN Val(booking.cancellationWindowMinutes)
          ELSE getCancellationWindowMinutes(~booking.isInstant)
  IN  IF minutesUntilPickup > window THEN 0
      ELSE PenaltyMemo[booking.estimatedFare]

\* Faulty variant: the comparison is turned around (free inside the window).
calculateCancellationPenalty_FreeInside(booking, clock) ==
  LET pickupReference ==
        IF booking.isInstant THEN booking.createdAt
        ELSE IF booking.scheduledAt # Null THEN Val(booking.scheduledAt)
        ELSE booking.createdAt
      minutesUntilPickup == pickupReference - clock
      window ==
        IF booking.cancellationWindowMinutes # Null
          THEN Val(booking.cancellationWindowMinutes)
          ELSE getCancellationWindowMinutes(~booking.isInstant)
  IN  IF minutesUntilPickup < window THEN 0
      ELSE PenaltyMemo[booking.estimatedFare]

\* Faulty variant: a supplied scheduledAt is the reference of an instant ride too.
calculateCancellationPenalty_ScheduledReference(booking, clock) ==
  LET pickupReference ==
        IF booking.scheduledAt # Null THEN Val(booking.scheduledAt)
        ELSE booking.createdAt
      minutesUntilPickup == pickupReference - clock
      window ==
        IF booking.cancellationWindowMinutes # Null
          THEN Val(booking.cancellationWindowMinutes)
          ELSE getCancellationWindowMinutes(~booking.isInstant)
  IN  IF minutesUntilPickup >= window THEN 0
      ELSE PenaltyMemo[booking.estimatedFare]

calculateCancellationPenalty(booking, clock) ==
  LET pickupReference ==
        IF booking.isInstant THEN booking.createdAt
        ELSE IF booking.scheduledAt # Null THEN Val(booking.scheduledAt)
        ELSE booking.createdAt
      minutesUntilPickup == pickupReference - clock
      window ==
        IF booking.cancellationWindowMinutes # Null
          THEN Val(booking.cancellationWindowMinutes)
          ELSE getCancellationWindowMinutes(~booking.isInstant)
  IN  IF minutesUntilPickup >= window THEN 0
      ELSE PenaltyMemo[booking.estimatedFare]

(***************************************************************************)
(* UserService.                                                            *)
(***************************************************************************)
Hash(password) == <<"bcrypt", password>>

\* userRepository.findOne({ where }): soft-deleted rows are left out unless
\* withDeleted is set.
FindUserById(id, withDeleted) ==
  IF id \in 1..Len(users) /\ (withDeleted \/ users[id].deletedAt = Null)
    THEN Some(users[id]) ELSE Null

FindUserIdByEmail(email, withDeleted) ==
  LET found == {i \in 1..Len(users) :
                  users[i].email = email /\ (withDeleted \/ users[i].deletedAt = Null)}
  IN  IF found = {} THEN 0 ELSE CHOOSE i \in found : \A j \in found : i <= j

\* Faulty variant: every existing user is taken for a soft-deleted one.
isSoftDeleted_Always(user) == TRUE

\* if (existingUser.deletedAt)
isSoftDeleted(user) == user.deletedAt # Null

\* Faulty variant: the restored user keeps the old password hash.
restoredUser_KeepsPassword(existingUser, password, firstName, lastName) ==
  [existingUser EXCEPT !.deletedAt = Null, !.isActive = TRUE,
                       !.firstName = firstName, !.lastName = lastName]

\* the five assignments that restore a soft-deleted user
restoredUser(existingUser, password, firstName, lastName) ==
  [existingUser EXCEPT !.deletedAt = Null, !.isActive = TRUE,
                       !.password = Hash(password),
                       !.firstName = firstName, !.lastName = lastName]

\* Faulty variant: the password is stored as given.
createdUser_PlainPassword(id, email, password, firstName, lastName) ==
  [id |-> id, email |-> email, password |-> password, firstName |-> firstName,
   lastName |-> lastName, isConfirmed |-> TRUE, isActive |-> TRUE, deletedAt |-> Null]

\* userRepository.create({...}) with the generated id
createdUser(id, email, password, firstName, lastName) ==
  [id |-> id, email |-> email, password |-> Hash(password), firstName |-> firstName,
   lastName |-> lastName, isConfirmed |-> TRUE, isActive |-> TRUE, deletedAt |-> Null]

Signup(email, password, firstName, lastName) ==
  LET existing == FindUserIdByEmail(email, TRUE) IN
  /\ UNCHANGED <<bookings, now, request>>
  /\ IF existing # 0
       THEN IF isSoftDeleted(users[existing])
              THEN /\ users' = [users EXCEPT ![existing] =
                                  restoredUser(@, password, firstName, lastName)]
                   /\ outcome' = Outcome("signup", Null)
              ELSE /\ users' = users
                   /\ outcome' = Outcome("signup", Some("Conflict"))
       ELSE /\ users' = Append(users, createdUser(Len(users) + 1, email, password,
                                                  firstName, lastName))
            /\ outcome' = Outcome("signup", Null)

\* What a call returns: the arguments it was given, the exception it threw
\* (or Null) and the value it returned (or Null).
Reply(op, args, error, result) ==
  [op |-> op, args |-> args, error |-> error, result |-> result]

\* Faulty variant: the record is returned as stored.
WithoutPassword_Kept(user) == user

\* const { password: _, ...userWithoutPassword } = user
WithoutPassword(user) == [f \in DOMAIN user \ {"password"} |-> user[f]]

\* Faulty variant: any password is accepted.
Compare_Any(password, hash) == TRUE

\* bcrypt.compare(password, user.password)
Compare(password, hash) == Hash(password) = hash

\* jwtService.sign(payload): a token that carries the payload
Sign(payload) == <<"jwt", payload>>

\* what signin answers: the exception it throws or the AuthResponse
SigninReply(email, password) ==
  LET found == FindUserIdByEmail(email, FALSE) IN
  IF found = 0 \/ users[found].deletedAt # Null
    THEN Reply("signin", <<email, password>>, Some("Unauthorized"), Null)
  ELSE IF ~users[found].isActive
    THEN Reply("signin", <<email, password>>, Some("Unauthorized"), Null)
  ELSE IF ~Compare(password, users[found].password)
    THEN Reply("signin", <<email, password>>, Some("Unauthorized"), Null)
  ELSE Reply("signin", <<email, password>>, Null,
             Some([accessToken |-> Sign([sub |-> users[found].id,
                                         email |-> users[found].email]),
                   user |-> WithoutPassword(users[found])]))

Signin(email, password) ==
  /\ UNCHANGED <<users, bookings, now, request>>
  /\ outcome' = SigninReply(email, password)

\* Faulty variant: the row is looked up with its soft-deleted state ignored.
FindOne_IncludingDeleted(id) ==
  LET user == FindUserById(id, TRUE) IN
  /\ UNCHANGED <<users, bookings, now, request>>
  /\ outcome' =
       IF user = Null
         THEN Reply("findOne", <<id>>, Some("NotFound"), Null)
         ELSE Reply("findOne", <<id>>, Null, Some(WithoutPassword(Val(user))))

FindOne(id) ==
  LET user == FindUserById(id, FALSE) IN
  /\ UNCHANGED <<users, bookings, now, request>>
  /\ outcome' =
       IF user = Null \/ Val(user).deletedAt # Null
         THEN Reply("findOne", <<id>>, Some("NotFound"), Null)
         ELSE Reply("findOne", <<id>>, Null, Some(WithoutPassword(Val(user))))

\* returns the stored record, password included, or null
FindByEmail(email) ==
  LET found == FindUserIdByEmail(email, FALSE) IN
  /\ UNCHANGED <<users, bookings, now, request>>
  /\ outcome' =
       IF found = 0 \/ users[found].deletedAt # Null
         THEN Reply("findByEmail", <<email>>, Null, Null)
         ELSE Reply("findByEmail", <<email>>, Null, Some(users[found]))

NotDeleted(user) == user.deletedAt = Null

\* userRepository.find(): the rows that are not soft-deleted, in id order
FindAll ==
  LET rows == SelectSeq(users, NotDeleted) IN
  /\ UNCHANGED <<users, bookings, now, request>>
  /\ outcome' = Reply("findAll", <<>>, Null,
                      Some([k \in 1..Len(rows) |-> WithoutPassword(rows[k])]))

\* Faulty variant: an already soft-deleted user is deleted again.
DeleteAccount_Repeatable(userId) ==
  LET user == FindUserById(userId, TRUE) IN
  /\ UNCHANGED <<bookings, now, request>>
  /\ IF user = Null
       THEN /\ users' = users
            /\ outcome' = Outcome("deleteAccount", Some("NotFound"))
       ELSE /\ users' = [users EXCEPT ![userId].deletedAt = Some(now)]
            /\ outcome' = Outcome("deleteAccount", Null)

\* Faulty variant: the deletion deactivates the account as well.
DeleteAccount_Deactivating(userId) ==
  LET user == FindUserById(userId, FALSE) IN
  /\ UNCHANGED <<bookings, now, request>>
  /\ IF user = Null \/ Val(user).deletedAt # Null
       THEN /\ users' = users
            /\ outcome' = Outcome("deleteAccount", Some("NotFound"))
       ELSE /\ users' = [users EXCEPT ![userId].deletedAt = Some(now),
                                      ![userId].isActive = FALSE]
            /\ outcome' = Outcome("deleteAccount", Null)

DeleteAccount(userId) ==
  LET user == FindUserById(userId, FALSE) IN
  /\ UNCHANGED <<bookings, now, request>>
  /\ IF user = Null \/ Val(user).deletedAt # Null
       THEN /\ users' = users
            /\ outcome' = Outcome("deleteAccount", Some("NotFound"))
       ELSE /\ users' = [users EXCEPT ![userId].deletedAt = Some(now)]
            /\ outcome' = Outcome("deleteAccount", Null)

(***************************************************************************)
(* JwtStrategy and the guarded operations.  `request` holds the sessions   *)
(* of the clients: the credentials a client signed in with and the access  *)
(* token it was given.                                                     *)
(***************************************************************************)
\* Faulty variant: a deactivated user passes the guard.
validateRejects_Never(user) == FALSE

\* !user.isActive (findOne has thrown already for a missing or deleted user)
validateRejects(user) == ~user.isActive

\* JwtStrategy.validate(payload): the exception thrown, or { userId, email }
ValidateReply(payload) ==
  LET user == FindUserById(payload.sub, FALSE) IN
  IF user = Null \/ Val(user).deletedAt # Null
    THEN Reply("validate", <<payload>>, Some("NotFound"), Null)
  ELSE IF validateRejects(WithoutPassword(Val(user)))
    THEN Reply("validate", <<payload>>, Some("Unauthorized"), Null)
  ELSE Reply("validate", <<payload>>, Null,
             Some([userId |-> Val(user).id, email |-> Val(user).email]))

\* signin by a client that keeps the token it is given
Login(email, password) ==
  LET reply == SigninReply(email, password) IN
  /\ UNCHANGED <<users, bookings, now>>
  /\ outcome' = reply
  /\ request' = IF reply.error = Null
                  THEN request \cup {[email |-> email, password |-> password,
                                      accessToken |-> Val(reply.result).accessToken]}
                  ELSE request

\* a guarded query (me, user, users, ride, myRides) presenting the token: the
\* guard's verdict
Validate(token) ==
  /\ token \in {session.accessToken : session \in request}
  /\ UNCHANGED <<users, bookings, now, request>>
  /\ outcome' = ValidateReply(token[2])

\* the deleteAccount mutation behind the guard, for the user the guard returns
DeleteMyAccount(token) ==
  /\ token \in {session.accessToken : session \in request}
  /\ ValidateReply(token[2]).error = Null
  /\ DeleteAccount(Val(ValidateReply(token[2]).result).userId)

(***************************************************************************)
(* BookingService.                                                         *)
(***************************************************************************)
\* Faulty variant: a deactivated passenger is let through.
passengerInactive_Never(passenger) == FALSE

\* if (!passenger.isActive)
passengerInactive(passenger) == ~passenger.isActive

\* Faulty variant: an instant ride starts as DRIVER_ASSIGNED.
initialStatus_Assigned(isScheduledRide) ==
  IF isScheduledRide THEN "SCHEDULED" ELSE "DRIVER_ASSIGNED"

\* isScheduledRide ? RideStatus.SCHEDULED : RideStatus.PENDING_DRIVER
initialStatus(isScheduledRide) ==
  IF isScheduledRide THEN "SCHEDULED" ELSE "PENDING_DRIVER"

CreateRideBooking(passengerId, input) ==
  LET passenger == FindUserById(passengerId, FALSE) IN
  /\ Len(bookings) < MaxBookings
  /\ UNCHANGED <<users, now, request>>
  /\ IF passenger = Null \/ Val(passenger).deletedAt # Null
       THEN /\ bookings' = bookings
            /\ outcome' = Outcome("createRideBooking", Some("NotFound"))
       ELSE IF passengerInactive(Val(passenger))
       THEN /\ bookings' = bookings
            /\ outcome' = Outcome("createRideBooking", Some("BadRequest"))
       ELSE LET scheduledAt ==
                  IF input.scheduledOffset = Null THEN Null
                  ELSE Some(now + Val(input.scheduledOffset))
                isScheduledRide ==
                  scheduledAt # Null
                    /\ isFutureDate(Val(scheduledAt), SCHEDULE_THRESHOLD_MINUTES, now)
                est == EstimateOf(input, isScheduledRide)
            IN  /\ bookings' = Append(bookings,
                     [id |-> Len(bookings) + 1,
                      passenger |-> Val(passenger).id,
                      pickupLocation |-> input.pickup,
                      destinationLocation |-> input.destination,
                      stops |-> IF Len(input.stops) # 0 THEN Some(input.stops) ELSE Null,
                      vehicleType |-> input.vehicleType,
                      scheduledAt |-> scheduledAt,
                      isInstant |-> ~isScheduledRide,
                      status |-> initialStatus(isScheduledRide),
                      estimatedFare |-> est.estimatedFare,
                      estimatedDistanceKm |-> est.estimatedDistanceKm,
                      estimatedDurationMinutes |-> est.estimatedDurationMinutes,
                      estimatedArrival |->
                        estimateArrivalTime(scheduledAt, est.estimatedDurationMinutes, now),
                      cancellationWindowMinutes |->
                        Some(getCancellationWindowMinutes(isScheduledRide)),
                      cancellationPenalty |-> Null,
                      cancellationReason |-> Null,
                      cancelledAt |-> Null,
                      createdAt |-> now])
                /\ outcome' = Outcome("createRideBooking", Null)

\* Faulty variant: only COMPLETED rides are refused.
canNoLongerBeCancelled_CompletedOnly(status) == status = "COMPLETED"

\* [RideStatus.CANCELLED, RideStatus.COMPLETED].includes(booking.status)
canNoLongerBeCancelled(status) == status \in {"CANCELLED", "COMPLETED"}

\* Faulty variant: the reason is not stored.
applyCancellation_NoReason(booking, reason, penalty, clock) ==
  [booking EXCEPT !.status = "CANCELLED",
                  !.cancellationPenalty = Some(penalty),
                  !.cancelledAt = Some(clock)]

\* Faulty variant: cancelledAt is not set.
applyCancellation_NoTimestamp(booking, reason, penalty, clock) ==
  [booking EXCEPT !.status = "CANCELLED",
                  !.cancellationReason = reason,
                  !.cancellationPenalty = Some(penalty)]

\* the four assignments of cancelRide
applyCancellation(booking, reason, penalty, clock) ==
  [booking EXCEPT !.status = "CANCELLED",
                  !.cancellationReason = reason,
                  !.cancellationPenalty = Some(penalty),
                  !.cancelledAt = Some(clock)]

\* Null when findOneForPassenger throws NotFoundException
findOneForPassenger(rideId, passengerId) ==
  IF rideId \in 1..Len(bookings) /\ bookings[rideId].passenger = passengerId
    THEN Some(bookings[rideId]) ELSE Null

\* What the repository loads for the eager passenger relation of a stored
\* ride: TRUE when the user row is joined in, FALSE when the relation comes
\* back null.  The join is made without withDeleted, so for a soft-deleted
\* passenger either outcome is possible.
passengerLoaded(rideId) ==
  IF rideId \in 1..Len(bookings)
       /\ users[bookings[rideId].passenger].deletedAt # Null
    THEN BOOLEAN ELSE {TRUE}

\* the ride query: findOneForPassenger as a request of its own; reading
\* booking.passenger.id of a null relation throws a TypeError
FindOneForPassenger(rideId, passengerId) ==
  \E loaded \in passengerLoaded(rideId) :
    LET booking == findOneForPassenger(rideId, passengerId) IN
    /\ UNCHANGED <<users, bookings, now, request>>
    /\ outcome' =
         IF ~loaded
           THEN Reply("findOneForPassenger", <<rideId, passengerId>>,
                      Some("TypeError"), Null)
         ELSE IF booking = Null
           THEN Reply("findOneForPassenger", <<rideId, passengerId>>,
                      Some("NotFound"), Null)
         ELSE Reply("findOneForPassenger", <<rideId, passengerId>>, Null, booking)

CancelRide(passengerId, rideId, reason) ==
  \E loaded \in passengerLoaded(rideId) :
    LET booking == findOneForPassenger(rideId, passengerId) IN
    /\ UNCHANGED <<users, now, request>>
    /\ IF ~loaded
         THEN /\ bookings' = bookings
              /\ outcome' = Outcome("cancelRide", Some("TypeError"))
         ELSE IF booking = Null
         THEN /\ bookings' = bookings
              /\ outcome' = Outcome("cancelRide", Some("NotFound"))
         ELSE IF canNoLongerBeCancelled(Val(booking).status)
         THEN /\ bookings' = bookings
              /\ outcome' = Outcome("cancelRide", Some("BadRequest"))
         ELSE LET penalty == calculateCancellationPenalty(Val(booking), now)
              IN  /\ bookings' = [bookings EXCEPT ![rideId] =
                                     applyCancellation(Val(booking), reason, penalty, now)]
                  /\ outcome' = Outcome("cancelRide", Null)

Tick(minutes) ==
  /\ now + minutes <= MaxTime
  /\ now' = now + minutes
  /\ UNCHANGED <<users, bookings, outcome, request>>

(***************************************************************************)
(* Spec: the booking life cycle over the user table.                       *)
(* Account deletion (DeleteAccount) writes the user table only and is left *)
(* out of this next-state relation; the booking properties below hold      *)
(* with it added as well (491,086 states).                                 *)
(***************************************************************************)
Init ==
  /\ users = <<>>
  /\ bookings = <<>>
  /\ now = 0
  /\ outcome = Outcome("init", Null)
  /\ request = Null

Next ==
  \/ \E e \in Emails, p \in Passwords, f \in Names, l \in Names : Signup(e, p, f, l)
  \/ \E u \in UserIds, i \in MainInputs : CreateRideBooking(u, i)
  \/ \E u \in UserIds, r \in RideIds, c \in Reasons : CancelRide(u, r, c)
  \/ \E m \in TickMinutes : Tick(m)

Spec == Init /\ [][Next]_vars

(***************************************************************************)
(* SpecEstimate: one createRideBooking call by a signed-up passenger, the  *)
(* request drawn from WideInputs.                                          *)
(***************************************************************************)
InitEstimate ==
  /\ users = <<[id |-> 1, email |-> "a@x.io", password |-> Hash("secret1"),
                firstName |-> "Al", lastName |-> "Al", isConfirmed |-> TRUE,
                isActive |-> TRUE, deletedAt |-> Null]>>
  /\ bookings = <<>>
  /\ now = 0
  /\ outcome = Outcome("signup", Null)
  /\ request \in WideInputs

NextEstimate == bookings = <<>> /\ CreateRideBooking(1, request)

SpecEstimate == InitEstimate /\ [][NextEstimate]_vars

(***************************************************************************)
(* SpecDuration: one createRideBooking call, the request drawn from        *)
(* DurationInputs.                                                         *)
(***************************************************************************)
InitDuration ==
  /\ users = <<createdUser(1, "a@x.io", "secret1", "Al", "Al")>>
  /\ bookings = <<>>
  /\ now = 0
  /\ outcome = Outcome("signup", Null)
  /\ request \in DurationInputs

NextDuration == bookings = <<>> /\ CreateRideBooking(1, request)

SpecDuration == InitDuration /\ [][NextDuration]_vars

(***************************************************************************)
(* SpecAccounts: the account life cycle (signup, signin, the read paths,   *)
(* deleteAccount) together with createRideBooking.  The users table starts *)
(* empty or with one account that was deactivated outside the service: no  *)
(* operation of the service clears isActive, but signin and                *)
(* createRideBooking test it.                                              *)
(***************************************************************************)
AccountPasswords == {"secret1", "secret2"}
FirstNames == {"Al", "Bo"}

DeactivatedAccount ==
  [id |-> 1, email |-> "a@x.io", password |-> Hash("secret1"),
   firstName |-> "Al", lastName |-> "Al", isConfirmed |-> TRUE,
   isActive |-> FALSE, deletedAt |-> Null]

SeedTables == {<<>>, <<DeactivatedAccount>>}

AccountInputs == {CreateInput(NoCoords, NoCoords, <<>>, "ECONOMY", Null, Null, Null)}

InitAccounts ==
  /\ users \in SeedTables
  /\ bookings = <<>>
  /\ now = 0
  /\ outcome = Outcome("init", Null)
  /\ request = Null

NextAccounts ==
  \/ \E e \in Emails, p \in AccountPasswords, f \in FirstNames, l \in Names :
       Signup(e, p, f, l)
  \/ \E e \in Emails, p \in AccountPasswords : Signin(e, p)
  \/ \E u \in UserIds : FindOne(u)
  \/ \E e \in Emails : FindByEmail(e)
  \/ FindAll
  \/ \E u \in UserIds : DeleteAccount(u)
  \/ \E u \in UserIds, i \in AccountInputs : CreateRideBooking(u, i)

SpecAccounts == InitAccounts /\ [][NextAccounts]_vars

(***************************************************************************)
(* SpecTokens: signup, signin and account deletion by clients that present *)
(* their tokens to the guard.  As in SpecAccounts the table starts empty   *)
(* or with an account deactivated outside the service; the holder of that  *)
(* account has a token from before the deactivation.                       *)
(***************************************************************************)
TokenOf(user) == Sign([sub |-> user.id, email |-> user.email])

InitTokens ==
  /\ users \in SeedTables
  /\ bookings = <<>>
  /\ now = 0
  /\ outcome = Outcome("init", Null)
  /\ request = {[email |-> users[i].email, password |-> "secret1",
                  accessToken |-> TokenOf(users[i])] : i \in 1..Len(users)}

NextTokens ==
  \/ \E e \in Emails, p \in AccountPasswords, f \in FirstNames, l \in Names :
       Signup(e, p, f, l)
  \/ \E e \in Emails, p \in AccountPasswords : Login(e, p)
  \/ \E session \in request : Validate(session.accessToken)
  \/ \E session \in request : DeleteMyAccount(session.accessToken)

SpecTokens == InitTokens /\ [][NextTokens]_vars

(***************************************************************************)
(* SpecService: every operation of the service that writes, from the empty *)
(* database: signup, signin, the guard, deleteAccount, createRideBooking   *)
(* and cancelRide.                                                         *)
(***************************************************************************)
InitService ==
  /\ users = <<>>
  /\ bookings = <<>>
  /\ now = 0
  /\ outcome = Outcome("init", Null)
  /\ request = {}

NextService ==
  \/ \E e \in Emails, p \in Passwords, f \in Names, l \in Names : Signup(e, p, f, l)
  \/ \E e \in Emails, p \in AccountPasswords : Login(e, p)
  \/ \E session \in request : Validate(session.accessToken)
  \/ \E session \in request : DeleteMyAccount(session.accessToken)
  \/ \E u \in UserIds, i \in AccountInputs : CreateRideBooking(u, i)
  \/ \E u \in UserIds, r \in RideIds : CancelRide(u, r, Null)

SpecService == InitService /\ [][NextService]_vars

(***************************************************************************)
(* SpecSignupRace: signup requests in flight at the same time.  A request  *)
(* looks the email up (awaited findOne with withDeleted), then hashes the  *)
(* password and saves (awaited): an UPDATE of the row it found when that   *)
(* row was soft-deleted, an INSERT otherwise.  `request` holds the context *)
(* of each request in flight.                                              *)
(***************************************************************************)
Signups == {1, 2}

NoSignup ==
  [pc |-> "idle", email |-> "", password |-> "", firstName |-> "",
   lastName |-> "", existing |-> 0, error |-> Null]

\* Faulty variant: the email column has no unique constraint.
emailTaken_Unchecked(email) == FALSE

\* @Column({ unique: true }) email: an INSERT fails when any row, soft-deleted
\* ones included, has the email
emailTaken(email) == \E i \in 1..Len(users) : users[i].email = email

\* const existingUser = await this.userRepository.findOne({ where: { email },
\* withDeleted: true }), and the ConflictException
SignupLookup(q, email, password, firstName, lastName) ==
  LET existing == FindUserIdByEmail(email, TRUE)
      call == [NoSignup EXCEPT !.email = email, !.password = password,
                               !.firstName = firstName, !.lastName = lastName,
                               !.existing = existing]
  IN  /\ request[q].pc = "idle"
      /\ UNCHANGED <<users, bookings, now>>
      /\ IF existing # 0 /\ ~isSoftDeleted(users[existing])
           THEN /\ request' = [request EXCEPT ![q] =
                      [call EXCEPT !.pc = "done", !.error = Some("Conflict")]]
                /\ outcome' = Outcome("signup", Some("Conflict"))
           ELSE /\ request' = [request EXCEPT ![q] = [call EXCEPT !.pc = "saving"]]
                /\ outcome' = Outcome("findOne", Null)

\* bcrypt.hash and userRepository.save: of the restored row, or of a new one
SignupSave(q) ==
  LET ctx == request[q] IN
  /\ ctx.pc = "saving"
  /\ UNCHANGED <<bookings, now>>
  /\ IF ctx.existing # 0
       THEN /\ users' = [users EXCEPT ![ctx.existing] =
                           restoredUser(@, ctx.password, ctx.firstName, ctx.lastName)]
            /\ request' = [request EXCEPT ![q].pc = "done"]
            /\ outcome' = Outcome("signup", Null)
       ELSE IF emailTaken(ctx.email)
       THEN /\ users' = users
            /\ request' = [request EXCEPT ![q].pc = "done",
                                           ![q].error = Some("QueryFailed")]
            /\ outcome' = Outcome("signup", Some("QueryFailed"))
       ELSE /\ users' = Append(users, createdUser(Len(users) + 1, ctx.email,
                                  ctx.password, ctx.firstName, ctx.lastName))
            /\ request' = [request EXCEPT ![q].pc = "done"]
            /\ outcome' = Outcome("signup", Null)

InitSignupRace ==
  /\ users = <<>>
  /\ bookings = <<>>
  /\ now = 0
  /\ outcome = Outcome("init", Null)
  /\ request = [q \in Signups |-> NoSignup]

NextSignupRace ==
  \/ \E q \in Signups, e \in Emails, p \in AccountPasswords, f \in FirstNames :
       SignupLookup(q, e, p, f, f)
  \/ \E q \in Signups : SignupSave(q)
  \/ \E u \in UserIds : DeleteAccount(u)

SpecSignupRace == InitSignupRace /\ [][NextSignupRace]_vars

(***************************************************************************)
(* SpecRides: two signed-up passengers booking, reading and cancelling     *)
(* rides while either may delete the account.                              *)
(***************************************************************************)
TwoPassengers ==
  <<createdUser(1, "a@x.io", "secret1", "Al", "Al"),
    createdUser(2, "b@x.io", "secret1", "Al", "Al")>>

RideInputs == {CreateInput(NoCoords, NoCoords, <<>>, "ECONOMY", Null, Null, Null)}

InitRides ==
  /\ users = TwoPassengers
  /\ bookings = <<>>
  /\ now = 0
  /\ outcome = Outcome("signup", Null)
  /\ request = Null

NextRides ==
  \/ \E u \in UserIds, i \in RideInputs : CreateRideBooking(u, i)
  \/ \E u \in UserIds, r \in RideIds : FindOneForPassenger(r, u)
  \/ \E u \in UserIds, r \in RideIds, c \in Reasons : CancelRide(u, r, c)
  \/ \E u \in UserIds : DeleteAccount(u)

SpecRides == InitRides /\ [][NextRides]_vars

(***************************************************************************)
(* SpecCancelRace: cancelRide requests in flight at the same time.  A       *)
(* request reads the booking (the awaited findOneForPassenger), then runs   *)
(* the status check and the four assignments on the copy it read, then the  *)
(* awaited save writes that copy back.  `request` holds the context of each *)
(* request in flight.                                                       *)
(***************************************************************************)
Requests == {1, 2}

Idle ==
  [pc |-> "idle", passengerId |-> 0, rideId |-> 0, reason |-> Null,
   booking |-> Null, error |-> Null]

\* const booking = await this.findOneForPassenger(input.rideId, passengerId)
CancelRead(q, passengerId, rideId, reason) ==
  \E loaded \in passengerLoaded(rideId) :
    LET booking == findOneForPassenger(rideId, passengerId)
        call == [Idle EXCEPT !.passengerId = passengerId, !.rideId = rideId,
                             !.reason = reason]
    IN  /\ request[q].pc = "idle"
        /\ UNCHANGED <<users, bookings, now>>
        /\ IF ~loaded
             THEN /\ request' = [request EXCEPT ![q] =
                        [call EXCEPT !.pc = "done", !.error = Some("TypeError")]]
                  /\ outcome' = Outcome("cancelRide", Some("TypeError"))
             ELSE IF booking = Null
             THEN /\ request' = [request EXCEPT ![q] =
                        [call EXCEPT !.pc = "done", !.error = Some("NotFound")]]
                  /\ outcome' = Outcome("cancelRide", Some("NotFound"))
             ELSE /\ request' = [request EXCEPT ![q] =
                        [call EXCEPT !.pc = "read", !.booking = booking]]
                  /\ outcome' = Outcome("findOneForPassenger", Null)

\* the status check, the penalty and the assignments, made on the copy read
CancelCheck(q) ==
  LET ctx == request[q]
      booking == Val(ctx.booking)
  IN  /\ ctx.pc = "read"
      /\ UNCHANGED <<users, bookings, now>>
      /\ IF canNoLongerBeCancelled(booking.status)
           THEN /\ request' = [request EXCEPT ![q].pc = "done",
                                              ![q].error = Some("BadRequest")]
                /\ outcome' = Outcome("cancelRide", Some("BadRequest"))
           ELSE /\ request' = [request EXCEPT ![q].pc = "saving",
                     ![q].booking = Some(applyCancellation(booking, ctx.reason,
                                           calculateCancellationPenalty(booking, now), now))]
                /\ outcome' = Outcome("calculateCancellationPenalty", Null)

\* return this.bookingRepository.save(booking)
CancelSave(q) ==
  LET ctx == request[q] IN
  /\ ctx.pc = "saving"
  /\ UNCHANGED <<users, now>>
  /\ bookings' = [bookings EXCEPT ![ctx.rideId] = Val(ctx.booking)]
  /\ request' = [request EXCEPT ![q].pc = "done"]
  /\ outcome' = Outcome("cancelRide", Null)

RaceReasons == {Some("Plans changed"), Some("Found another ride")}

InitCancelRace ==
  /\ users = <<createdUser(1, "a@x.io", "secret1", "Al", "Al")>>
  /\ bookings = <<>>
  /\ now = 0
  /\ outcome = Outcome("signup", Null)
  /\ request = [q \in Requests |-> Idle]

NextCancelRace ==
  \/ \E i \in RideInputs : CreateRideBooking(1, i)
  \/ \E q \in Requests, r \in RideIds, c \in RaceReasons : CancelRead(q, 1, r, c)
  \/ \E q \in Requests : CancelCheck(q)
  \/ \E q \in Requests : CancelSave(q)
  \/ \E m \in TickMinutes : Tick(m)

SpecCancelRace == InitCancelRace /\ [][NextCancelRace]_vars

(***************************************************************************)
(* Properties.                                                             *)
(***************************************************************************)
BookingIds == 1..Len(bookings)

IsCancelled(b) == b.status = "CANCELLED"

\* reference - (time of cancellation), in minutes, of a cancelled booking:
\* reference is createdAt for an instant booking and scheduledAt otherwise
MinutesUntilPickupAtCancel(b) ==
  (IF b.isInstant THEN b.createdAt ELSE Val(b.scheduledAt)) - Val(b.cancelledAt)

\* p (hundredths) is x (ten-thousandths) rounded to 2 decimals
RoundsTo(p, x) == 100 * p - x <= 50 /\ x - 100 * p <= 50

Max(a, b) == IF a >= b THEN a ELSE b

\* C1: every cancelled booking stores penalty 0 when its reference time was at
\* least cancellationWindowMinutes after the time of cancellation, and otherwise
\* max(5, 0.15 x estimatedFare) rounded to 2 decimals.
C1_PenaltyFormula ==
  \A i \in BookingIds :
    LET b == bookings[i] IN
    IsCancelled(b) =>
      IF MinutesUntilPickupAtCancel(b) >= Val(b.cancellationWindowMinutes)
        THEN b.cancellationPenalty = Some(0)
        ELSE /\ b.cancellationPenalty # Null
             /\ RoundsTo(Val(b.cancellationPenalty), Max(50000, 15 * b.estimatedFare))

\* a free cancellation next to one charged 0.15 x fare > 5
C1_Witness ==
  /\ \E i \in BookingIds :
       /\ IsCancelled(bookings[i])
       /\ MinutesUntilPickupAtCancel(bookings[i]) >= Val(bookings[i].cancellationWindowMinutes)
       /\ bookings[i].cancellationPenalty = Some(0)
  /\ \E i \in BookingIds :
       /\ IsCancelled(bookings[i])
       /\ Val(bookings[i].cancellationPenalty) > 500

Terminal == {"CANCELLED", "COMPLETED"}

\* C2: a cancelRide call on a booking that is CANCELLED or COMPLETED throws the
\* validation error (BadRequest) and changes no booking; and once a booking is
\* CANCELLED no later step changes any of its fields.
C2_TerminalCancelRejected ==
  [][ /\ \A u \in UserIds, r \in RideIds, c \in Reasons :
           ( /\ outcome'.op = "cancelRide"
             /\ CancelRide(u, r, c)
             /\ findOneForPassenger(r, u) # Null
             /\ Val(findOneForPassenger(r, u)).status \in Terminal )
           => /\ outcome' = Outcome("cancelRide", Some("BadRequest"))
              /\ bookings' = bookings
      /\ \A i \in BookingIds :
           bookings[i].status \in Terminal => bookings'[i] = bookings[i]
    ]_vars

\* a second cancelRide on a cancelled booking has just been rejected
C2_Witness ==
  /\ outcome = Outcome("cancelRide", Some("BadRequest"))
  /\ \E i \in BookingIds : IsCancelled(bookings[i]) /\ bookings[i].cancelledAt # Some(now)

\* C3: a successful cancelRide sets status, cancellationReason (the supplied
\* reason, Null when none), cancellationPenalty and cancelledAt = now of that
\* booking and leaves its other fields and every other booking unchanged.
C3_CancelFrame ==
  [][ \A u \in UserIds, r \in RideIds, c \in Reasons :
        (outcome' = Outcome("cancelRide", Null) /\ CancelRide(u, r, c))
        => /\ Len(bookings') = Len(bookings)
           /\ r \in BookingIds
           /\ bookings'[r].status = "CANCELLED"
           /\ bookings'[r].cancellationReason = c
           /\ bookings'[r].cancellationPenalty # Null
           /\ bookings'[r].cancelledAt = Some(now)
           /\ bookings'[r] =
                [bookings[r] EXCEPT !.status = bookings'[r].status,
                                    !.cancellationReason = bookings'[r].cancellationReason,
                                    !.cancellationPenalty = bookings'[r].cancellationPenalty,
                                    !.cancelledAt = bookings'[r].cancelledAt]
           /\ \A j \in BookingIds : j # r => bookings'[j] = bookings[j]
           /\ users' = users
    ]_vars

\* two bookings, one cancelled without a reason after the clock moved, the other
\* left alone
C3_Witness ==
  /\ Len(bookings) = 2
  /\ IsCancelled(bookings[1])
  /\ bookings[1].cancellationReason = Null
  /\ bookings[1].cancelledAt = Some(now)
  /\ now > bookings[1].createdAt
  /\ ~IsCancelled(bookings[2])

Live == {"PENDING_DRIVER", "SCHEDULED"}

StatusInv == \A i \in BookingIds : bookings[i].status \in Live \cup {"CANCELLED"}

StatusStep ==
  /\ Len(bookings') >= Len(bookings)
  /\ \A i \in BookingIds :
       bookings'[i].status # bookings[i].status
         => /\ bookings[i].status \in Live
            /\ bookings'[i].status = "CANCELLED"
            /\ outcome' = Outcome("cancelRide", Null)
  /\ \A i \in 1..Len(bookings') :
       i > Len(bookings) => bookings'[i].status \in Live

\* C4: every booking's status is PENDING_DRIVER, SCHEDULED or CANCELLED; a
\* booking is created PENDING_DRIVER or SCHEDULED; the only status change is
\* PENDING_DRIVER -> CANCELLED or SCHEDULED -> CANCELLED, made by cancelRide;
\* CANCELLED is absorbing.
C4_StatusLifecycle == []StatusInv /\ [][StatusStep]_vars

\* both transitions have been taken
C4_Witness ==
  /\ \E i \in BookingIds : IsCancelled(bookings[i]) /\ bookings[i].isInstant
  /\ \E i \in BookingIds : IsCancelled(bookings[i]) /\ ~bookings[i].isInstant

\* C8 as stated: a cancelRide performed when the pickup reference time is fewer
\* than cancellationWindowMinutes away stores cancellationPenalty = 0.
C8_FreeInsideWindow ==
  \A i \in BookingIds :
    LET b == bookings[i] IN
    (IsCancelled(b) /\ MinutesUntilPickupAtCancel(b) < Val(b.cancellationWindowMinutes))
      => b.cancellationPenalty = Some(0)

\* C8 amended: the window is the time before pickup in which cancelling is
\* charged: fewer than cancellationWindowMinutes (5 instant, 30 scheduled) away
\* the stored penalty is at least 5, and it is 0 only from the window upwards.
C8_ChargedInsideWindow ==
  \A i \in BookingIds :
    LET b == bookings[i] IN
    IsCancelled(b) =>
      /\ b.cancellationWindowMinutes = Some(IF b.isInstant THEN 5 ELSE 30)
      /\ b.cancellationPenalty # Null
      /\ (Val(b.cancellationPenalty) = 0
            <=> MinutesUntilPickupAtCancel(b) >= Val(b.cancellationWindowMinutes))
      /\ Val(b.cancellationPenalty) # 0 => Val(b.cancellationPenalty) >= 500

\* a scheduled ride cancelled 25 minutes before pickup, and charged
C8_Witness ==
  \E i \in BookingIds :
    /\ IsCancelled(bookings[i])
    /\ ~bookings[i].isInstant
    /\ MinutesUntilPickupAtCancel(bookings[i]) = 25
    /\ Val(bookings[i].cancellationPenalty) >= 500

\* The offset scheduledAt - createdAt of a booking, Null without scheduledAt.
ScheduleOffset(b) ==
  IF b.scheduledAt = Null THEN Null ELSE Some(Val(b.scheduledAt) - b.createdAt)

\* C5: a created booking is scheduled (isInstant = FALSE, status SCHEDULED,
\* window 30) iff scheduledAt is supplied and lies strictly more than 5 minutes
\* after the time of the call; every other booking (no scheduledAt, in the past,
\* at most 5 minutes ahead) is instant (isInstant = TRUE, PENDING_DRIVER, window 5).
C5_Classification ==
  \A i \in BookingIds :
    LET b == bookings[i]
        o == ScheduleOffset(b)
    IN  IF o # Null /\ Val(o) > 5
          THEN /\ ~b.isInstant
               /\ b.status = "SCHEDULED"
               /\ b.cancellationWindowMinutes = Some(30)
          ELSE /\ b.isInstant
               /\ b.status = "PENDING_DRIVER"
               /\ b.cancellationWindowMinutes = Some(5)

\* a booking asked for exactly 5 minutes ahead, stored as instant
C5_Witness ==
  \E i \in BookingIds :
    /\ ScheduleOffset(bookings[i]) = Some(5)
    /\ bookings[i].isInstant
    /\ bookings[i].cancellationWindowMinutes = Some(5)

\* C6 as stated: every persisted booking has estimatedDistanceKm >= 1 and
\* estimatedDurationMinutes >= 10, manual overrides included.
C6_FloorsAlways ==
  \A i \in BookingIds :
    /\ bookings[i].estimatedDistanceKm >= 100
    /\ bookings[i].estimatedDurationMinutes >= 10

\* C6 amended: the floors hold for the derived values: estimatedDistanceKm >= 1
\* when the request carries no manual distance, estimatedDurationMinutes >= 10
\* when it carries no manual duration.
C6_FloorsWhenDerived ==
  \A i \in BookingIds :
    /\ request.estimatedDistanceKm = Null => bookings[i].estimatedDistanceKm >= 100
    /\ request.estimatedDurationMinutes = Null => bookings[i].estimatedDurationMinutes >= 10

\* a route of length 0 (pickup = destination), floored to 1 km and 10 minutes
C6_Witness ==
  /\ bookings # <<>>
  /\ request.pickup = SiteA /\ request.destination = SiteA /\ request.stops = <<>>
  /\ request.estimatedDistanceKm = Null /\ request.estimatedDurationMinutes = Null
  /\ bookings[1].estimatedDistanceKm = 100
  /\ bookings[1].estimatedDurationMinutes = 10

StopCount(b) == IF b.stops = Null THEN 0 ELSE Len(Val(b.stops))

\* base, perKm, perMinute in hundredths, as the claim lists them
C7_Rates ==
  [ECONOMY   |-> <<250,  85, 30>>, PREMIUM   |-> <<400, 115, 42>>,
   SUV       |-> <<450, 130, 48>>, EXECUTIVE |-> <<600, 160, 60>>]

\* base + perKm x distance + perMinute x duration + 1.25 x stops + 1.5 if
\* scheduled, in ten-thousandths, from the stored distance and duration
C7_Unrounded(b) ==
  LET r == C7_Rates[b.vehicleType]
  IN  100 * r[1] + r[2] * b.estimatedDistanceKm
        + 100 * r[3] * b.estimatedDurationMinutes
        + 12500 * StopCount(b) + (IF b.isInstant THEN 0 ELSE 15000)

\* C7: estimatedFare is that sum rounded to 2 decimals; an instant ECONOMY ride
\* with no stops, 1 km and 10 minutes costs 6.35.
C7_FareFormula ==
  \A i \in BookingIds :
    LET b == bookings[i] IN
    /\ RoundsTo(b.estimatedFare, C7_Unrounded(b))
    /\ ( b.vehicleType = "ECONOMY" /\ b.isInstant /\ StopCount(b) = 0
         /\ b.estimatedDistanceKm = 100 /\ b.estimatedDurationMinutes = 10 )
       => b.estimatedFare = 635

\* the 6.35 ride, its distance floored from 0
C7_Witness ==
  /\ bookings # <<>>
  /\ request.pickup = SiteA /\ request.destination = SiteA
  /\ request.estimatedDistanceKm = Null
  /\ bookings[1].vehicleType = "ECONOMY" /\ bookings[1].isInstant
  /\ bookings[1].estimatedFare = 635

\* the fare of the otherwise identical instant ride
InstantFare(b) ==
  calculateFare(b.vehicleType, b.estimatedDistanceKm, b.estimatedDurationMinutes,
                StopCount(b), FALSE)

\* C11: estimatedArrival = base + estimatedDurationMinutes, where base is
\* scheduledAt when it is supplied and strictly after the time of the call, and
\* the time of the call otherwise (absent, equal to it or in the past).
C11_Arrival ==
  \A i \in BookingIds :
    LET b == bookings[i]
        o == ScheduleOffset(b)
        base == IF o # Null /\ Val(o) > 0 THEN Val(b.scheduledAt) ELSE b.createdAt
    IN  b.estimatedArrival = base + b.estimatedDurationMinutes

\* a ride asked for 5 minutes in the past, its arrival counted from the call,
\* with a manual duration of 17 minutes
C11_Witness ==
  \E i \in BookingIds :
    /\ ScheduleOffset(bookings[i]) = Some(-5)
    /\ request.estimatedDurationMinutes = Some(170)
    /\ bookings[i].estimatedArrival = bookings[i].createdAt + 17

\* the segments of a stored route: pairs of neighbouring points
RouteOf(b) ==
  <<b.pickupLocation>> \o (IF b.stops = Null THEN <<>> ELSE Val(b.stops))
    \o <<b.destinationLocation>>

Located(point) == point.latitude # Null /\ point.longitude # Null

\* the number of segments of a route with an endpoint that lacks a coordinate
BlindSegments(route) ==
  Cardinality({k \in 1..(Len(route) - 1) : ~(Located(route[k]) /\ Located(route[k + 1]))})

\* the length in hundredths of a km of the segments with coordinates at both
\* ends, rounded per segment
LocatedLength(route) ==
  LET seg[k \in 0..(Len(route) - 1)] ==
        IF k = 0 THEN 0
        ELSE seg[k - 1] + (IF Located(route[k]) /\ Located(route[k + 1])
                             THEN segmentDistance(route[k], route[k + 1]) ELSE 0)
  IN  seg[Len(route) - 1]

\* C13: without a manual distance every segment with a missing latitude or
\* longitude on either endpoint contributes exactly 3 km whatever the address,
\* so a route without any coordinates has estimatedDistanceKm = 3 x (stops + 1).
C13_DefaultSegment ==
  \A i \in BookingIds :
    LET b == bookings[i]
        route == RouteOf(b)
    IN  request.estimatedDistanceKm = Null =>
          /\ BlindSegments(route) > 0 =>
                b.estimatedDistanceKm = 300 * BlindSegments(route) + LocatedLength(route)
          /\ (\A k \in 1..Len(route) : route[k].latitude = Null /\ route[k].longitude = Null)
                => b.estimatedDistanceKm = 300 * (StopCount(b) + 1)

\* two stops between addresses without coordinates, one of them carrying only
\* a longitude: 9 km
C13_Witness ==
  /\ bookings # <<>>
  /\ request.estimatedDistanceKm = Null
  /\ request.stops = <<Elsewhere, LonOnly>>
  /\ bookings[1].estimatedDistanceKm = 900

C10_StopAddsExactly125 ==
  \A i \in BookingIds :
    LET b == bookings[i] IN
    calculateFare(b.vehicleType, b.estimatedDistanceKm, b.estimatedDurationMinutes,
                  StopCount(b) + 1, ~b.isInstant)
      = b.estimatedFare + 125

(***************************************************************************)
(* Properties of the account life cycle.                                   *)
(***************************************************************************)
UserRows == 1..Len(users)

\* the id is that of a stored user that is not soft-deleted
Present(u) == u \in UserRows /\ users[u].deletedAt = Null

\* C12: createRideBooking for a passenger id that is missing or soft-deleted
\* throws NotFound, for a passenger with isActive = FALSE it throws the
\* validation error (BadRequest); either way no booking is added and no
\* booking or user record changes.
C12_PassengerErrors ==
  [][ \A u \in UserIds, i \in AccountInputs :
        (outcome'.op = "createRideBooking" /\ CreateRideBooking(u, i))
        => /\ ~Present(u)
                => /\ outcome' = Outcome("createRideBooking", Some("NotFound"))
                   /\ bookings' = bookings /\ users' = users
           /\ (Present(u) /\ ~users[u].isActive)
                => /\ outcome' = Outcome("createRideBooking", Some("BadRequest"))
                   /\ bookings' = bookings /\ users' = users
    ]_vars

\* the deactivated account was just refused, next to a booking of another
\* passenger and a soft-deleted account
C12_Witness ==
  /\ outcome = Outcome("createRideBooking", Some("BadRequest"))
  /\ \E u \in UserRows : Present(u) /\ ~users[u].isActive
  /\ bookings # <<>>

\* the row that holds the email, soft-deleted rows included (0 when none)
RowOf(e) ==
  IF \E i \in UserRows : users[i].email = e
    THEN CHOOSE i \in UserRows : users[i].email = e ELSE 0

\* a signup for the email of a soft-deleted user restores that row
RestoreStep ==
  \A e \in Emails, p \in AccountPasswords, f \in FirstNames, l \in Names :
    ( /\ outcome'.op = "signup"
      /\ Signup(e, p, f, l)
      /\ RowOf(e) # 0
      /\ users[RowOf(e)].deletedAt # Null )
    => LET i == RowOf(e) IN
       /\ outcome' = Outcome("signup", Null)
       /\ Len(users') = Len(users)
       /\ users'[i].id = users[i].id
       /\ users'[i] = [users[i] EXCEPT !.deletedAt = Null, !.isActive = TRUE,
                                       !.password = Hash(p),
                                       !.firstName = f, !.lastName = l]
       /\ \A q \in AccountPasswords \ {p} : ~Compare(q, users'[i].password)
       /\ \A j \in UserRows : j # i => users'[j] = users[j]

\* a signin for a present, active user succeeds exactly with the password
\* whose hash the row holds, and then for that user's id
SigninFollowsStoredHash ==
  outcome.op = "signin" =>
    LET i == RowOf(outcome.args[1]) IN
    (i # 0 /\ Present(i) /\ users[i].isActive) =>
      /\ outcome.error = Null <=> users[i].password = Hash(outcome.args[2])
      /\ outcome.error = Null => Val(outcome.result).user.id = users[i].id

\* C14: deletion is a restorable soft delete: signup with the email of a
\* soft-deleted user adds no record and restores the same record (same id) with
\* deletedAt = null, isActive = TRUE and the new password hash and names; after
\* that, signin succeeds with the new password for that id and fails with the
\* old one.
C14_RestorableSoftDelete == [][RestoreStep]_vars /\ []SigninFollowsStoredHash

\* the account that started deactivated has been deleted and restored under a
\* new password and name, and signin with the new password returned its id
C14_Witness ==
  /\ Len(users) >= 1
  /\ users[1] = [DeactivatedAccount EXCEPT !.isActive = TRUE, !.firstName = "Bo",
                                           !.password = Hash("secret2")]
  /\ outcome.op = "signin"
  /\ outcome.args = <<"a@x.io", "secret2">>
  /\ outcome.error = Null
  /\ Val(outcome.result).user.id = 1

\* C15: signup with the email of an existing user that is not soft-deleted
\* throws ConflictException and saves nothing: no record is added and the
\* existing record (password, names, flags) is unchanged.
C15_SignupConflict ==
  [][ \A e \in Emails, p \in AccountPasswords, f \in FirstNames, l \in Names :
        ( /\ outcome'.op = "signup"
          /\ Signup(e, p, f, l)
          /\ RowOf(e) # 0
          /\ users[RowOf(e)].deletedAt = Null )
        => /\ outcome' = Outcome("signup", Some("Conflict"))
           /\ users' = users
           /\ bookings' = bookings
    ]_vars

\* a signup was just refused while both emails are taken, one of them by an
\* account that was deleted and restored before
C15_Witness ==
  /\ outcome = Outcome("signup", Some("Conflict"))
  /\ Len(users) = 2
  /\ \A i \in UserRows : users[i].deletedAt = Null
  /\ users[1].isActive /\ users[1].id = DeactivatedAccount.id
  /\ users[1].email = DeactivatedAccount.email

\* what deleteAccount does to the table, and who may clear deletedAt
DeleteStep ==
  /\ \A u \in UserIds :
       (outcome'.op = "deleteAccount" /\ DeleteAccount(u))
       => IF Present(u)
            THEN /\ outcome' = Outcome("deleteAccount", Null)
                 /\ users' = [users EXCEPT ![u].deletedAt = Some(now)]
                 /\ users'[u].deletedAt # Null
            ELSE /\ outcome' = Outcome("deleteAccount", Some("NotFound"))
                 /\ users' = users
  /\ \A i \in UserRows :
       (users[i].deletedAt # Null /\ users'[i].deletedAt = Null)
         => outcome' = Outcome("signup", Null)
  /\ Len(users') >= Len(users)

\* C16: deleteAccount on an existing, not-deleted user sets deletedAt, keeps
\* the record and succeeds; on a missing or already soft-deleted user it throws
\* NotFoundException and changes nothing; a soft-deleted user stays so until a
\* signup restores it, so a second deleteAccount in between fails.
C16_DeleteAccount == [][DeleteStep]_vars

\* a deleteAccount just failed although every id is that of a stored user:
\* the user was soft-deleted already
C16_Witness ==
  /\ outcome = Outcome("deleteAccount", Some("NotFound"))
  /\ UserIds \subseteq UserRows
  /\ \E i \in UserRows : users[i].deletedAt # Null

\* the ids of the records in a findAll result
ListedIds(list) == {list[k].id : k \in DOMAIN list}

\* C17: a soft-deleted user is invisible to the reads: findOne answers
\* NotFound, findByEmail answers null, signin is rejected as Unauthorized, and
\* findAll returns exactly the users that are not soft-deleted, each once.
C17_DeletedInvisible ==
  /\ outcome.op = "findOne" =>
       LET id == outcome.args[1] IN
       IF Present(id)
         THEN outcome.error = Null /\ Val(outcome.result).id = id
         ELSE outcome.error = Some("NotFound") /\ outcome.result = Null
  /\ outcome.op = "findByEmail" =>
       LET i == RowOf(outcome.args[1]) IN
       IF i # 0 /\ Present(i)
         THEN outcome.result = Some(users[i])
         ELSE outcome.result = Null /\ outcome.error = Null
  /\ outcome.op = "signin" =>
       LET i == RowOf(outcome.args[1]) IN
       (i # 0 /\ ~Present(i))
         => outcome.error = Some("Unauthorized") /\ outcome.result = Null
  /\ outcome.op = "findAll" =>
       LET list == Val(outcome.result) IN
       /\ ListedIds(list) = {u \in UserRows : Present(u)}
       /\ Len(list) = Cardinality(ListedIds(list))

\* findAll has just listed one user of two, the other being soft-deleted
C17_Witness ==
  /\ outcome.op = "findAll"
  /\ Len(users) = 2
  /\ Len(Val(outcome.result)) = 1
  /\ \E i \in UserRows : users[i].deletedAt # Null

\* the user signin may accept: stored, not soft-deleted, active, and the
\* supplied password matches the stored hash
MayAuthenticate(email, password) ==
  LET i == RowOf(email) IN
  /\ i # 0
  /\ Present(i)
  /\ users[i].isActive
  /\ Hash(password) = users[i].password

\* C18: signin returns a token only for an existing, non-deleted, active user
\* whose password matches the stored hash, and the token payload is
\* {sub: user.id, email: user.email}; a missing, soft-deleted or inactive user
\* or a wrong password gives UnauthorizedException.
C18_SigninGuards ==
  outcome.op = "signin" =>
    LET email == outcome.args[1]
        password == outcome.args[2]
    IN  IF MayAuthenticate(email, password)
          THEN /\ outcome.error = Null
               /\ Val(outcome.result).accessToken =
                    Sign([sub |-> users[RowOf(email)].id,
                          email |-> users[RowOf(email)].email])
          ELSE /\ outcome.error = Some("Unauthorized")
               /\ outcome.result = Null

\* a deactivated, not deleted user was refused with the right password
C18_Witness ==
  /\ outcome.op = "signin"
  /\ outcome.error = Some("Unauthorized")
  /\ LET i == RowOf(outcome.args[1]) IN
      /\ i # 0
      /\ Present(i)
      /\ ~users[i].isActive
      /\ users[i].password = Hash(outcome.args[2])

\* C19: the user records returned by signin, findOne and findAll never have
\* a password field.
C19_NoPasswordReturned ==
  /\ (outcome.op = "signin" /\ outcome.result # Null)
       => "password" \notin DOMAIN Val(outcome.result).user
  /\ (outcome.op = "findOne" /\ outcome.result # Null)
       => "password" \notin DOMAIN Val(outcome.result)
  /\ outcome.op = "findAll"
       => \A k \in DOMAIN Val(outcome.result) :
            "password" \notin DOMAIN Val(outcome.result)[k]

\* findOne has just returned a stored user whose row holds a password hash
C19_Witness ==
  /\ outcome.op = "findOne"
  /\ outcome.result # Null
  /\ users[outcome.args[1]].password = Hash("secret2")
  /\ Val(outcome.result).email = users[outcome.args[1]].email

\* a signup for an email no record has adds one user
CreateStep ==
  \A e \in Emails, p \in AccountPasswords, f \in FirstNames, l \in Names :
    ( /\ outcome'.op = "signup"
      /\ Signup(e, p, f, l)
      /\ RowOf(e) = 0 )
    => LET n == Len(users) + 1 IN
       /\ outcome' = Outcome("signup", Null)
       /\ Len(users') = n
       /\ \A i \in UserRows : users'[i] = users[i]
       /\ users'[n].id \notin {users[i].id : i \in UserRows}
       /\ users'[n].email = e
       /\ users'[n].firstName = f /\ users'[n].lastName = l
       /\ users'[n].isConfirmed /\ users'[n].isActive
       /\ users'[n].deletedAt = Null
       /\ Hash(p) = users'[n].password
       /\ Hash(p) # p

\* signin with the credentials of a stored, active, not deleted user succeeds
SigninAccepts ==
  (outcome.op = "signin" /\ MayAuthenticate(outcome.args[1], outcome.args[2]))
    => /\ outcome.error = Null
       /\ Val(outcome.result).user.email = outcome.args[1]

\* C20: signup with an email no existing record uses creates exactly one new
\* user with isConfirmed = TRUE, isActive = TRUE and the password stored as a
\* hash, never as the plaintext; signin with the same email and password then
\* succeeds.
C20_SignupCreates == [][CreateStep]_vars /\ []SigninAccepts

\* the second email was signed up into an empty table and then signed in
C20_Witness ==
  /\ outcome.op = "signin"
  /\ outcome.error = Null
  /\ outcome.args = <<"b@x.io", "secret2">>
  /\ Len(users) = 1
  /\ users[1].email = "b@x.io"
  /\ Val(outcome.result).accessToken = Sign([sub |-> 1, email |-> "b@x.io"])

(***************************************************************************)
(* Properties of ride ownership.                                           *)
(***************************************************************************)
\* the ride id is unknown or the ride belongs to another passenger
Foreign(rideId, passengerId) ==
  rideId \notin BookingIds \/ bookings[rideId].passenger # passengerId

\* C21 as stated: findOneForPassenger and cancelRide called with a
\* passengerId different from the booking's passenger, or with an unknown ride
\* id, fail with the not-found error and leave every booking unchanged; no call
\* by passenger A changes a booking of passenger B.
C21_ForeignIsNotFound ==
  /\ [][ \A u \in UserIds, r \in RideIds, c \in Reasons :
           (outcome'.op = "cancelRide" /\ CancelRide(u, r, c))
           => /\ Foreign(r, u)
                   => /\ outcome' = Outcome("cancelRide", Some("NotFound"))
                      /\ bookings' = bookings
              /\ Len(bookings') = Len(bookings)
              /\ \A k \in BookingIds :
                   bookings[k].passenger # u => bookings'[k] = bookings[k]
       ]_vars
  /\ [](outcome.op = "findOneForPassenger"
          => (Foreign(outcome.args[1], outcome.args[2])
                => outcome.error = Some("NotFound") /\ outcome.result = Null))

(***************************************************************************)
(* Properties of the derived duration.                                     *)
(***************************************************************************)
\* the resolved distances (hundredths of a km) of the duration requests and
\* the duration resolveDuration derives from each
DurationMemo ==
  [d \in {EstimateMemo[k].estimatedDistanceKm :
            k \in {Unscheduled(j) : j \in DurationInputs} \X BOOLEAN} |->
     resolveDuration(d, Null)]

\* round(distance x 60 / 32) for a distance in hundredths of a km, half up
RoundedMinutes(distanceKm) == (120 * distanceKm + 3200) \div 6400

\* C22 as stated: without a manual duration, estimatedDurationMinutes =
\* max(10, round(distance x 60 / 32)) for the resolved distance; every distance
\* up to 5.3 km gives exactly 10 minutes; the duration never decreases as the
\* distance grows.
C22_DurationFormula ==
  /\ \A i \in BookingIds :
       request.estimatedDurationMinutes = Null =>
         /\ bookings[i].estimatedDurationMinutes =
              Max(10, RoundedMinutes(bookings[i].estimatedDistanceKm))
         /\ bookings[i].estimatedDistanceKm <= 530
              => bookings[i].estimatedDurationMinutes = 10
  /\ \A d1, d2 \in DOMAIN DurationMemo :
       d1 <= d2 => DurationMemo[d1] <= DurationMemo[d2]

(***************************************************************************)
(* Further properties of the booking life cycle.                           *)
(***************************************************************************)
\* C23: an instant booking is never cancelled free of charge: its reference
\* time is createdAt, which is never after the time of cancellation, so
\* minutesUntilPickup <= 0 < cancellationWindowMinutes and every cancelled
\* booking with isInstant = TRUE has cancellationPenalty >= 5.
C23_InstantAlwaysCharged ==
  \A i \in BookingIds :
    LET b == bookings[i] IN
    /\ b.createdAt <= now
    /\ (IsCancelled(b) /\ b.isInstant) =>
         /\ b.createdAt - Val(b.cancelledAt) <= 0
         /\ 0 < Val(b.cancellationWindowMinutes)
         /\ Val(b.cancellationPenalty) >= 500

\* an instant ride that carries a scheduledAt five minutes ahead, cancelled in
\* the minute it was created, and charged
C23_Witness ==
  \E i \in BookingIds :
    /\ IsCancelled(bookings[i])
    /\ bookings[i].isInstant
    /\ ScheduleOffset(bookings[i]) = Some(5)
    /\ bookings[i].cancelledAt = Some(bookings[i].createdAt)
    /\ Val(bookings[i].cancellationPenalty) >= 500

\* the moments from the creation of a booking to its scheduled pickup
MomentsUntilPickup(b) == b.createdAt..Val(b.scheduledAt)

\* a cancelRide at some moment from creation on would store penalty 0
HasFreeMoment(b) ==
  \E t \in MomentsUntilPickup(b) : calculateCancellationPenalty(b, t) = 0

\* C24 as stated: every booking classified as scheduled, one between 5 and 30
\* minutes ahead included, has a moment at or after its creation at which
\* cancelRide stores cancellationPenalty = 0.
C24_FreeMomentExists ==
  \A i \in BookingIds : ~bookings[i].isInstant => HasFreeMoment(bookings[i])

\* C24 amended: a scheduled booking has such a moment iff its scheduledAt was
\* at least 30 minutes after its creation, and then the moment of creation is
\* one; a booking scheduled more than 5 but fewer than 30 minutes ahead is
\* charged whenever it is cancelled.
C24_FreeMomentFromThirtyAhead ==
  \A i \in BookingIds :
    LET b == bookings[i] IN
    ~b.isInstant =>
      /\ b.scheduledAt # Null
      /\ Val(ScheduleOffset(b)) > 5
      /\ HasFreeMoment(b) <=> Val(ScheduleOffset(b)) >= 30
      /\ Val(ScheduleOffset(b)) >= 30 => calculateCancellationPenalty(b, b.createdAt) = 0
      /\ (IsCancelled(b) /\ Val(ScheduleOffset(b)) < 30)
           => Val(b.cancellationPenalty) >= 500
      /\ (IsCancelled(b) /\ Val(b.cancellationPenalty) = 0)
           => Val(b.scheduledAt) - Val(b.cancelledAt) >= 30

\* a ride scheduled 6 minutes ahead was cancelled in the minute of its
\* creation and charged, and a ride scheduled 30 minutes ahead was cancelled
\* in the minute of its creation for free
C24_Witness ==
  /\ \E i \in BookingIds :
       /\ IsCancelled(bookings[i])
       /\ ~bookings[i].isInstant
       /\ ScheduleOffset(bookings[i]) = Some(6)
       /\ bookings[i].cancelledAt = Some(bookings[i].createdAt)
       /\ Val(bookings[i].cancellationPenalty) >= 500
  /\ \E i \in BookingIds :
       /\ IsCancelled(bookings[i])
       /\ ScheduleOffset(bookings[i]) = Some(30)
       /\ bookings[i].cancelledAt = Some(bookings[i].createdAt)
       /\ bookings[i].cancellationPenalty = Some(0)

(***************************************************************************)
(* Properties of concurrent cancellations.                                 *)
(***************************************************************************)
\* the requests that cancelled the ride and returned it
Succeeded(rideId) ==
  {q \in Requests : /\ request[q].pc = "done"
                     /\ request[q].error = Null
                     /\ request[q].rideId = rideId}

\* C25 as stated: of the cancelRide requests for one booking that run at the
\* same time at most one succeeds, and cancelledAt, cancellationPenalty and
\* cancellationReason are written once: a cancelled booking does not change.
C25_CancelledAtMostOnce ==
  /\ [](\A r \in RideIds : Cardinality(Succeeded(r)) <= 1)
  /\ [][\A i \in BookingIds : IsCancelled(bookings[i]) => bookings'[i] = bookings[i]]_vars

(***************************************************************************)
(* Properties of the guard.                                                *)
(***************************************************************************)
\* the guard's last verdict follows the present state of the user table
GuardFollowsTable ==
  outcome.op = "validate" =>
    LET payload == outcome.args[1] IN
    /\ outcome.error = Null <=> (Present(payload.sub) /\ users[payload.sub].isActive)
    /\ outcome.error = Null
         => outcome.result = Some([userId |-> payload.sub,
                                   email |-> users[payload.sub].email])
    /\ outcome.error # Null => outcome.result = Null

\* tokens stay those of the stored users: ids and emails never change, a
\* soft-deleted user stays so until a signup restores it under the same id,
\* and no deleteAccount gets past the guard for a deleted or inactive user
GuardStep ==
  /\ \A session \in request :
       LET payload == session.accessToken[2] IN
       /\ payload.sub \in UserRows
       /\ session.accessToken = TokenOf(users[payload.sub])
       /\ session.email = payload.email
  /\ \A i \in UserRows :
       /\ users'[i].id = users[i].id /\ users'[i].email = users[i].email
       /\ (users[i].deletedAt # Null /\ users'[i].deletedAt = Null)
            => outcome' = Outcome("signup", Null)
       /\ (users[i].deletedAt = Null /\ users'[i].deletedAt # Null)
            => /\ outcome' = Outcome("deleteAccount", Null)
               /\ users[i].isActive
               /\ \E session \in request : session.accessToken = TokenOf(users[i])

\* C26: JwtStrategy.validate accepts a payload exactly when the user with id
\* payload.sub exists, is not soft-deleted and is active; so after
\* deleteAccount(u) a token issued to u is rejected until a signup restores u,
\* and, the restore keeping the id, it is accepted again afterwards.
C26_GuardTracksAccount == []GuardFollowsTable /\ [][GuardStep]_vars

\* a client signed in with the first password; the account was deleted and
\* restored with another password since; the token from that first signin has
\* just been accepted
C26_Witness ==
  /\ outcome.op = "validate"
  /\ outcome.error = Null
  /\ \E session \in request :
       /\ session.accessToken[2] = outcome.args[1]
       /\ session.password = "secret1"
       /\ users[outcome.args[1].sub].password = Hash("secret2")
       /\ \A other \in request : other.email = session.email => other = session

\* C27: every user record has isActive = TRUE in every state reachable
\* through signup, signin, deleteAccount and the booking operations, so the
\* inactive branches of signin, createRideBooking and JwtStrategy.validate are
\* never taken.
C27_AlwaysActive ==
  /\ \A i \in UserRows : users[i].isActive
  /\ outcome # Outcome("createRideBooking", Some("BadRequest"))
  /\ ~(outcome.op = "validate" /\ outcome.error = Some("Unauthorized"))
  /\ (outcome.op = "signin" /\ outcome.error # Null) =>
       LET i == RowOf(outcome.args[1]) IN
       i = 0 \/ ~Present(i) \/ Hash(outcome.args[2]) # users[i].password

\* a user that deleted the account is still active, and the guard has just
\* turned that user's token away as not found
C27_Witness ==
  /\ outcome.op = "validate"
  /\ outcome.error = Some("NotFound")
  /\ users[outcome.args[1].sub].deletedAt # Null
  /\ users[outcome.args[1].sub].isActive
  /\ bookings # <<>>

(***************************************************************************)
(* Properties of concurrent signups.                                       *)
(***************************************************************************)
\* the signup requests that found no row for their email, saved and returned
\* the user they created
Created(email) ==
  {q \in Signups : /\ request[q].pc = "done"
                    /\ request[q].email = email
                    /\ request[q].existing = 0
                    /\ request[q].error = Null}

\* the signup requests that have finished without returning a user
Refused(email) ==
  {q \in Signups : /\ request[q].pc = "done"
                    /\ request[q].email = email
                    /\ request[q].error # Null}

\* C28: at most one user record, soft-deleted ones included, exists per
\* email, also when two signups for the same unused email interleave between
\* the lookup and the save: at most one of them creates a record and the other
\* does not return a user.
C28_OneRecordPerEmail ==
  /\ \A i, j \in UserRows : users[i].email = users[j].email => i = j
  /\ \A e \in Emails :
       /\ Cardinality(Created(e)) <= 1
       /\ \A q \in Signups :
            (request[q].pc = "done" /\ request[q].email = e /\ request[q].existing = 0)
              => q \in Created(e) \cup Refused(e)

\* both requests found the email unused; one created the record, the other
\* was stopped by the unique column
C28_Witness ==
  /\ Len(users) = 1
  /\ request[1].pc = "done" /\ request[2].pc = "done"
  /\ request[1].email = request[2].email
  /\ request[1].existing = 0 /\ request[2].existing = 0
  /\ \E q \in Signups : request[q].error = Some("QueryFailed")
  /\ Cardinality(Created(request[1].email)) = 1

(***************************************************************************)
(* Further properties of the estimates.                                    *)
(***************************************************************************)
\* the moments, from its creation on, at which a booking may be cancelled
CancelMoments(b) == b.createdAt..(b.createdAt + 40)

\* C29: for a booking created without manual distance or duration, the
\* cancellation penalty never exceeds estimatedFare: the fare is at least 6.35
\* (ECONOMY, 1 km, 10 minutes), the penalty is 0 or max(5, 0.15 x fare).
C29_PenaltyWithinFare ==
  \A i \in BookingIds :
    LET b == bookings[i] IN
    (request.estimatedDistanceKm = Null /\ request.estimatedDurationMinutes = Null)
      => /\ b.estimatedFare >= 635
         /\ \A t \in CancelMoments(b) :
              calculateCancellationPenalty(b, t) <= b.estimatedFare

\* the cheapest booking: ECONOMY over the minimum distance, fare 6.35, whose
\* cancellation costs 5.00
C29_Witness ==
  /\ bookings # <<>>
  /\ request.estimatedDistanceKm = Null /\ request.estimatedDurationMinutes = Null
  /\ bookings[1].vehicleType = "ECONOMY"
  /\ bookings[1].estimatedDistanceKm = 100
  /\ bookings[1].estimatedDurationMinutes = 10
  /\ bookings[1].estimatedFare = 635
  /\ calculateCancellationPenalty(bookings[1], bookings[1].createdAt) = 500

\* C30: for every booking, status = CANCELLED iff cancelledAt is set iff
\* cancellationPenalty is set; a stored penalty is 0 or at least 5, and
\* cancelledAt is not earlier than createdAt.
C30_CancellationFields ==
  \A i \in BookingIds :
    LET b == bookings[i] IN
    /\ IsCancelled(b) <=> b.cancelledAt # Null
    /\ b.cancelledAt # Null <=> b.cancellationPenalty # Null
    /\ b.cancellationPenalty # Null
         => Val(b.cancellationPenalty) = 0 \/ Val(b.cancellationPenalty) >= 500
    /\ b.cancelledAt # Null => Val(b.cancelledAt) >= b.createdAt

\* one booking cancelled for free five minutes after its creation, next to a
\* booking that is not cancelled and has neither field
C30_Witness ==
  \E i, j \in BookingIds :
    /\ IsCancelled(bookings[i])
    /\ bookings[i].cancellationPenalty = Some(0)
    /\ Val(bookings[i].cancelledAt) > bookings[i].createdAt
    /\ ~IsCancelled(bookings[j])
    /\ bookings[j].cancelledAt = Null /\ bookings[j].cancellationPenalty = Null

====
